---- MODULE Spec2Model ----
(***************************************************************************)
(* A model of package dnode (src/dnode/dnode.go): the Dnode message        *)
(* processor, its handler and callback registries, the Copy operation and  *)
(* the blocking receive loop Run.                                          *)
(***************************************************************************)
EXTENDS Integers, Sequences, FiniteSets, TLC

VARIABLES
    hmaps,     \* heap of handler maps (Go maps are references): map id -> [name -> reflect.Value]
    dnodes,    \* the Dnode instances built so far, in construction order
    pc,        \* per instance: position of Run ("init", "idle", "processing", "stopped")
    cur,       \* per instance: the message Run holds between Receive and processMessage
    ret,       \* per instance: the value Run returned
    recvLog,   \* per instance: messages returned by successful Receive calls, in order
    doneLog,   \* per instance: messages whose processMessage call has returned, with outcome
    recvErr,   \* per instance: the error the transport's Receive returned, if any
    issued,    \* per instance: ids returned by registerCallback, in order
    origin,    \* per instance: the instance it was copied from, 0 when built by New
    hookSets,  \* assignments to hook fields the application has made so far
    last,      \* the most recent call on the public surface and its outcome
    ctx,       \* per goroutine calling into instance 1: its position inside the call
    raced,     \* goroutines whose access to the callbacks map overlaps another's
    crashed,   \* the Go runtime stopped the program ("concurrent map writes")
    lostUpdate, \* a registration or removal was lost in a racing map access
    phase,     \* one call across the wire: "start", "sent", "received", "invoked"
    args,      \* the argument list the sender passed
    snd,       \* the sending Dnode
    assigned,  \* the (path, id) pairs registerCallback produced while encoding
    wire,      \* the Message on the wire
    decoded,   \* the receiver's generic decode of the arguments
    outMsg     \* the Message sent by invoking a stub of the decoded arguments

vars == <<hmaps, dnodes, pc, cur, ret, recvLog, doneLog, recvErr, issued, origin, hookSets, last,
          ctx, raced, crashed, lostUpdate,
          phase, args, snd, assigned, wire, decoded, outMsg>>

ConcVars == <<ctx, raced, crashed, lostUpdate>>
CodecVars == <<phase, args, snd, assigned, wire, decoded, outMsg>>

----------------------------------------------------------------------------
(* Bounds of the model *)

MaxInst == 2      \* Dnode instances ever constructed
MaxMsgs == 2      \* messages a transport delivers to one Run loop
MaxSeq  == 2      \* callbacks one instance registers
MaxCtx  == 2      \* goroutines calling into one instance at once
MaxDepth == 1     \* nesting of containers below the argument list
MaxWidth == 2     \* elements of one sequence of the argument tree
MaxSets == 1      \* assignments to hook fields over all instances

----------------------------------------------------------------------------
(* Value universes *)

Transports == {"t1", "t2", "t3"}
Names      == {"", "ping"}                  \* method names passed to HandleFunc
NoErr      == "nil"
Errs       == {"EOF", "timeout"}            \* errors Transport.Receive may return

\* values passed as handler interface{}: nil, two funcs, one non-func
HandlerArgs == {"nil", "f1", "f2", "int42"}
CbFuncs     == {"cbA"}                      \* invocables handed to registerCallback
HookVals    == {"nil", "custom"}            \* a Wrapper / Runner field: unset or set

\* reflect.ValueOf(x): the value together with its Kind()
Kind(h) == IF h \in {"f1", "f2", "cbA"} THEN "Func"
           ELSE IF h = "int42" THEN "Int" ELSE "Invalid"
ValueOf(h) == [kind |-> Kind(h), fn |-> h]
ZeroValue == [kind |-> "Invalid", fn |-> "nil"]

\* Message.Method is interface{}: a string or a number
StrMethod(n) == [kind |-> "str", name |-> n, id |-> 0]
NumMethod(k) == [kind |-> "num", name |-> "", id |-> k]
Msgs == {StrMethod("ping"), NumMethod(0)}
NoMsg == [kind |-> "none", name |-> "", id |-> 0]

EmptyMap == [x \in {} |-> "nil"]

Insts == 1..Len(dnodes)
Ctxs == 1..MaxCtx
IdleCtx == [pc |-> "idle", id |-> 0, cb |-> "nil"]

----------------------------------------------------------------------------
(* Constructors *)

\* New(transport): fresh handler map hm, fresh callbacks, zero seq, nil hooks
New(transport, hm) ==
    [handlers         |-> hm,
     callbacks        |-> EmptyMap,
     seq              |-> 0,
     transport        |-> transport,
     WrapMethodArgs   |-> "nil",
     WrapCallbackArgs |-> "nil",
     RunMethod        |-> "nil",
     RunCallback      |-> "nil"]

\* Copy handing the source's callbacks to the copy
CopySharingCallbacks(d, transport) ==
    [handlers         |-> d.handlers,
     callbacks        |-> d.callbacks,
     seq              |-> d.seq,
     transport        |-> transport,
     WrapMethodArgs   |-> d.WrapMethodArgs,
     WrapCallbackArgs |-> d.WrapCallbackArgs,
     RunMethod        |-> d.RunMethod,
     RunCallback      |-> d.RunCallback]

\* Copy carrying the source's sequence counter over to the copy
CopyKeepingSeq(d, transport) ==
    [handlers         |-> d.handlers,
     callbacks        |-> EmptyMap,
     seq              |-> d.seq,
     transport        |-> transport,
     WrapMethodArgs   |-> d.WrapMethodArgs,
     WrapCallbackArgs |-> d.WrapCallbackArgs,
     RunMethod        |-> d.RunMethod,
     RunCallback      |-> d.RunCallback]

\* d.Copy(transport): same handler map, fresh callbacks, zero seq, d's hooks
Copy(d, transport) ==
    [handlers         |-> d.handlers,
     callbacks        |-> EmptyMap,
     seq              |-> 0,
     transport        |-> transport,
     WrapMethodArgs   |-> d.WrapMethodArgs,
     WrapCallbackArgs |-> d.WrapCallbackArgs,
     RunMethod        |-> d.RunMethod,
     RunCallback      |-> d.RunCallback]

NoCall == [op |-> "none", inst |-> 0, name |-> "", handler |-> "nil",
           id |-> 0, panicked |-> FALSE]

Call(op, i, n, h, k, p) ==
    [op |-> op, inst |-> i, name |-> n, handler |-> h, id |-> k, panicked |-> p]

InitDnode ==
    /\ hmaps = <<EmptyMap>>
    /\ dnodes = <<New("t1", 1)>>
    /\ pc = <<"init">>
    /\ cur = <<NoMsg>>
    /\ ret = <<NoErr>>
    /\ recvLog = << <<>> >>
    /\ doneLog = << <<>> >>
    /\ recvErr = <<NoErr>>
    /\ issued = << <<>> >>
    /\ origin = <<0>>
    /\ hookSets = 0
    /\ last = NoCall
    /\ ctx = [c \in Ctxs |-> IdleCtx]
    /\ raced = {}
    /\ crashed = FALSE
    /\ lostUpdate = FALSE

\* no call across the wire under way
NoWire == [method |-> NoMsg, arguments |-> [t |-> "arr", elems |-> <<>>],
           callbacks |-> EmptyMap]
NoDecode == [ok |-> FALSE, tree |-> [t |-> "missing"]]

InitCodec ==
    /\ phase = "start"
    /\ args = [t |-> "arr", elems |-> <<>>]
    /\ assigned = <<>>
    /\ wire = NoWire
    /\ decoded = NoDecode
    /\ outMsg = NoWire

Init ==
    /\ InitDnode
    /\ InitCodec
    /\ snd = New("t1", 1)

\* a new instance joins with Run not yet called
AddInstance(d, from) ==
    /\ dnodes' = Append(dnodes, d)
    /\ pc' = Append(pc, "init")
    /\ cur' = Append(cur, NoMsg)
    /\ ret' = Append(ret, NoErr)
    /\ recvLog' = Append(recvLog, <<>>)
    /\ doneLog' = Append(doneLog, <<>>)
    /\ recvErr' = Append(recvErr, NoErr)
    /\ issued' = Append(issued, <<>>)
    /\ origin' = Append(origin, from)
    /\ UNCHANGED hookSets

\* each Transport is unique to one client: those not yet bound to an instance
FreeTransports == Transports \ {dnodes[j].transport : j \in 1..Len(dnodes)}

CallNew(t) ==
    /\ Len(dnodes) < MaxInst
    /\ hmaps' = Append(hmaps, EmptyMap)
    /\ AddInstance(New(t, Len(hmaps) + 1), 0)
    /\ last' = Call("New", Len(dnodes) + 1, "", "nil", 0, FALSE)
    /\ UNCHANGED <<ConcVars, CodecVars>>

\* Copy giving the copy a snapshot of the handler map instead of the map
CallCopySnapshot(i, t) ==
    /\ Len(dnodes) < MaxInst
    /\ hmaps' = Append(hmaps, hmaps[dnodes[i].handlers])
    /\ AddInstance([Copy(dnodes[i], t) EXCEPT !.handlers = Len(hmaps) + 1], i)
    /\ last' = Call("Copy", Len(dnodes) + 1, t, "nil", i, FALSE)
    /\ UNCHANGED <<ConcVars, CodecVars>>

CallCopy(i, t) ==
    /\ Len(dnodes) < MaxInst
    /\ AddInstance(Copy(dnodes[i], t), i)
    /\ last' = Call("Copy", Len(dnodes) + 1, t, "nil", i, FALSE)
    /\ UNCHANGED hmaps
    /\ UNCHANGED <<ConcVars, CodecVars>>

RunState == <<pc, cur, ret, recvLog, doneLog, recvErr>>

----------------------------------------------------------------------------
(* Handler registry *)

\* HandleFunc without the check for an existing handler
HandleFuncPanicsNoDup(hm, method, handler) ==
    \/ method = ""
    \/ handler = "nil"
    \/ Kind(handler) # "Func"

\* HandleFunc accepting a second registration when the handler differs
HandleFuncPanicsSameOnly(hm, method, handler) ==
    \/ method = ""
    \/ handler = "nil"
    \/ (method \in DOMAIN hm /\ hm[method] = ValueOf(handler))
    \/ Kind(handler) # "Func"

\* the four panics of HandleFunc, on the handler map hm
HandleFuncPanics(hm, method, handler) ==
    \/ method = ""
    \/ handler = "nil"
    \/ method \in DOMAIN hm
    \/ Kind(handler) # "Func"

\* d.handlers[method] = val
HandleFunc(hm, method, handler) ==
    [n \in DOMAIN hm \cup {method} |->
        IF n = method THEN ValueOf(handler) ELSE hm[n]]

CallHandleFunc(i, method, handler) ==
    LET h  == dnodes[i].handlers
        hm == hmaps[h]
    IN  /\ IF HandleFuncPanics(hm, method, handler)
              THEN /\ last' = Call("HandleFunc", i, method, handler, 0, TRUE)
                   /\ UNCHANGED hmaps
              ELSE /\ last' = Call("HandleFunc", i, method, handler, 0, FALSE)
                   /\ hmaps' = [hmaps EXCEPT ![h] = HandleFunc(hm, method, handler)]
        /\ UNCHANGED <<dnodes, issued, origin, hookSets>>
        /\ UNCHANGED RunState
        /\ UNCHANGED <<ConcVars, CodecVars>>

\* the application assigns one of the exported hook fields
HookFields == {"WrapMethodArgs", "WrapCallbackArgs", "RunMethod", "RunCallback"}

SetHook(i, field, v) ==
    /\ hookSets < MaxSets
    /\ dnodes[i][field] # v
    /\ dnodes' = [dnodes EXCEPT ![i][field] = v]
    /\ hookSets' = hookSets + 1
    /\ last' = Call("SetHook", i, field, "nil", 0, FALSE)
    /\ UNCHANGED <<hmaps, issued, origin>>
    /\ UNCHANGED RunState
    /\ UNCHANGED <<ConcVars, CodecVars>>

----------------------------------------------------------------------------
(* Callback registry *)

\* the atomic increment of seq; the id handed out is the value before it
NextSeq(d) == [d EXCEPT !.seq = d.seq + 1]

\* d.callbacks[id] = callback
StoreCallback(d, id, cb) ==
    [d EXCEPT !.callbacks = [k \in DOMAIN d.callbacks \cup {id} |->
                                IF k = id THEN ValueOf(cb) ELSE d.callbacks[k]]]

\* registerCallback stores the invocable under the next sequence number
registerCallback(d, cb) == StoreCallback(NextSeq(d), d.seq, cb)

\* RemoveCallback handing the removed id back to the sequence counter
RemoveCallbackReuse(d, id) ==
    [d EXCEPT !.callbacks = [k \in DOMAIN d.callbacks \ {id} |-> d.callbacks[k]],
              !.seq = IF id \in DOMAIN d.callbacks THEN id ELSE d.seq]

\* RemoveCallback deleting every entry up to id
RemoveCallbackUpTo(d, id) ==
    [d EXCEPT !.callbacks = [k \in {x \in DOMAIN d.callbacks : x > id} |-> d.callbacks[k]]]

\* RemoveCallback emptying the registry when the id is present
RemoveCallbackClear(d, id) ==
    [d EXCEPT !.callbacks = IF id \in DOMAIN d.callbacks THEN EmptyMap ELSE @]

\* delete(d.callbacks, id)
RemoveCallback(d, id) ==
    [d EXCEPT !.callbacks = [k \in DOMAIN d.callbacks \ {id} |-> d.callbacks[k]]]

CallRegisterCallback(i, cb) ==
    /\ dnodes[i].seq < MaxSeq
    /\ dnodes' = [dnodes EXCEPT ![i] = registerCallback(dnodes[i], cb)]
    /\ issued' = [issued EXCEPT ![i] = Append(@, dnodes[i].seq)]
    /\ UNCHANGED <<origin, hookSets>>
    /\ last' = Call("registerCallback", i, "", cb, dnodes[i].seq, FALSE)
    /\ UNCHANGED hmaps
    /\ UNCHANGED RunState
    /\ UNCHANGED <<ConcVars, CodecVars>>

\* RemoveCallback on a callback map aliased between an instance and its copies
CallRemoveCallbackAliased(i, id) ==
    /\ dnodes' = [j \in DOMAIN dnodes |->
                     IF dnodes[j].handlers = dnodes[i].handlers
                        THEN RemoveCallback(dnodes[j], id) ELSE dnodes[j]]
    /\ last' = Call("RemoveCallback", i, "", "nil", id, FALSE)
    /\ UNCHANGED <<hmaps, issued, origin, hookSets>>
    /\ UNCHANGED RunState
    /\ UNCHANGED <<ConcVars, CodecVars>>

CallRemoveCallback(i, id) ==
    /\ dnodes' = [dnodes EXCEPT ![i] = RemoveCallback(dnodes[i], id)]
    /\ last' = Call("RemoveCallback", i, "", "nil", id, FALSE)
    /\ UNCHANGED <<hmaps, issued, origin, hookSets>>
    /\ UNCHANGED RunState
    /\ UNCHANGED <<ConcVars, CodecVars>>

----------------------------------------------------------------------------
(* Receive loop *)

\* what Transport.Receive may return: a message, or an error
RecvResults == {[msg |-> m, err |-> NoErr] : m \in Msgs}
               \cup {[msg |-> NoMsg, err |-> e] : e \in Errs}

\* Run dispatching each message on its own goroutine: Receive is called
\* again while a message is still being processed
AtReceiveAsync(i) == pc[i] \in {"idle", "processing"}

\* Run is ready to call Receive at the top of the for loop
AtReceive(i) == pc[i] = "idle"

\* Run retrying Receive after a timeout instead of returning
AfterReceiveRetry(r) ==
    IF r.err = "timeout" THEN [pc |-> "idle", ret |-> NoErr]
    ELSE IF r.err # NoErr THEN [pc |-> "stopped", ret |-> r.err]
    ELSE [pc |-> "processing", ret |-> NoErr]

\* Run calling Receive again after any error instead of returning it
AfterReceiveSwallowErr(r) ==
    IF r.err # NoErr THEN [pc |-> "idle", ret |-> NoErr]
                     ELSE [pc |-> "processing", ret |-> NoErr]

\* if err != nil { return err }, else fall through to processMessage
AfterReceive(r) ==
    IF r.err # NoErr THEN [pc |-> "stopped", ret |-> r.err]
                     ELSE [pc |-> "processing", ret |-> NoErr]

\* processMessage falling back to the handler registry when a numeric id
\* is not a registered callback
processMessageFallback(d, hm, msg, invOk) ==
    IF msg.kind = "num" /\ msg.id \notin DOMAIN d.callbacks /\ DOMAIN hm # {}
       THEN [m |-> msg, res |-> "handler",
             target |-> hm[CHOOSE n \in DOMAIN hm : TRUE]]
    ELSE LET reg == IF msg.kind = "str" THEN hm ELSE d.callbacks
             key == IF msg.kind = "str" THEN msg.name ELSE msg.id
         IN  IF key \notin DOMAIN reg
                THEN [m |-> msg, res |-> "miss", target |-> ZeroValue]
             ELSE IF ~invOk
                THEN [m |-> msg, res |-> "fail", target |-> reg[key]]
             ELSE [m |-> msg, res |-> IF msg.kind = "str" THEN "handler" ELSE "callback",
                   target |-> reg[key]]

\* processMessage resolves the method and invokes the handler or callback;
\* a miss or a failing invocation is reported, nothing is returned to Run
processMessage(d, hm, msg, invOk) ==
    LET reg == IF msg.kind = "str" THEN hm ELSE d.callbacks
        key == IF msg.kind = "str" THEN msg.name ELSE msg.id
    IN  IF key \notin DOMAIN reg
           THEN [m |-> msg, res |-> "miss", target |-> ZeroValue]
        ELSE IF ~invOk
           THEN [m |-> msg, res |-> "fail", target |-> reg[key]]
        ELSE [m |-> msg, res |-> IF msg.kind = "str" THEN "handler" ELSE "callback",
              target |-> reg[key]]

\* Run processing a message again when its invocation failed
AfterProcessReprocess(outcome) ==
    IF outcome.res = "fail" THEN "processing" ELSE "idle"

\* Run leaving the loop when processMessage reports a failure
AfterProcessStopOnFailure(outcome) ==
    IF outcome.res \in {"miss", "fail"} THEN "stopped" ELSE "idle"

\* the for loop has no exit after processMessage
AfterProcess(outcome) == "idle"

RunStart(i) ==
    /\ pc[i] = "init"
    /\ pc' = [pc EXCEPT ![i] = "idle"]
    /\ last' = Call("Run", i, "", "nil", 0, FALSE)
    /\ UNCHANGED <<hmaps, dnodes, cur, ret, recvLog, doneLog, recvErr, issued, origin, hookSets>>
    /\ UNCHANGED <<ConcVars, CodecVars>>

RunReceive(i, r) ==
    /\ AtReceive(i)
    /\ r.err = NoErr => Len(recvLog[i]) < MaxMsgs
    /\ pc' = [pc EXCEPT ![i] = AfterReceive(r).pc]
    /\ ret' = [ret EXCEPT ![i] = AfterReceive(r).ret]
    /\ cur' = [cur EXCEPT ![i] = r.msg]
    /\ recvLog' = [recvLog EXCEPT ![i] = IF r.err = NoErr THEN Append(@, r.msg) ELSE @]
    /\ recvErr' = [recvErr EXCEPT ![i] = r.err]
    /\ last' = Call("Receive", i, "", "nil", 0, FALSE)
    /\ UNCHANGED <<hmaps, dnodes, doneLog, issued, origin, hookSets>>
    /\ UNCHANGED <<ConcVars, CodecVars>>

\* processMessage dropping a callback once it has been dispatched
RunProcessMessageOneShot(i, invOk) ==
    /\ pc[i] = "processing"
    /\ LET outcome == processMessage(dnodes[i], hmaps[dnodes[i].handlers], cur[i], invOk)
       IN  /\ doneLog' = [doneLog EXCEPT ![i] = Append(@, outcome)]
           /\ pc' = [pc EXCEPT ![i] = AfterProcess(outcome)]
           /\ dnodes' = IF outcome.res = "callback"
                           THEN [dnodes EXCEPT ![i] = RemoveCallback(@, cur[i].id)]
                           ELSE dnodes
    /\ cur' = [cur EXCEPT ![i] = NoMsg]
    /\ last' = Call("processMessage", i, "", "nil", 0, FALSE)
    /\ UNCHANGED <<hmaps, ret, recvLog, recvErr, issued, origin, hookSets>>
    /\ UNCHANGED <<ConcVars, CodecVars>>

RunProcessMessage(i, invOk) ==
    /\ pc[i] = "processing"
    /\ LET outcome == processMessage(dnodes[i], hmaps[dnodes[i].handlers], cur[i], invOk)
       IN  /\ doneLog' = [doneLog EXCEPT ![i] = Append(@, outcome)]
           /\ pc' = [pc EXCEPT ![i] = AfterProcess(outcome)]
    /\ cur' = [cur EXCEPT ![i] = NoMsg]
    /\ last' = Call("processMessage", i, "", "nil", 0, FALSE)
    /\ UNCHANGED <<hmaps, dnodes, ret, recvLog, recvErr, issued, origin, hookSets>>
    /\ UNCHANGED <<ConcVars, CodecVars>>

----------------------------------------------------------------------------
(* Several goroutines calling registerCallback and RemoveCallback on          *)
(* instance 1.  The Dnode struct holds no lock: the seq increment is one     *)
(* atomic step, every access to the callbacks map is a plain Go map write,   *)
(* which takes time.  Two overlapping map writes are a data race; the build  *)
(* may apply the write, lose it, or stop with "concurrent map writes".       *)

Shared == 1

MainState == <<hmaps, pc, cur, ret, recvLog, doneLog, recvErr, last>>

\* the goroutines that are inside an access to the callbacks map
InMap == {c \in Ctxs : ctx[c].pc \in {"inStore", "inDelete"}}

\* goroutine c enters the map while whoever is in InMap is still inside
EnterMap(c) == IF InMap = {} THEN raced ELSE raced \cup InMap \cup {c}

RaceOutcomes(c) == IF c \in raced THEN {"applied", "lost", "crash"} ELSE {"applied"}

\* registerCallback, first half: next := atomic add on seq
ConcAddSeq(c, cb) ==
    /\ ~crashed
    /\ ctx[c].pc = "idle"
    /\ dnodes[Shared].seq < MaxSeq
    /\ ctx' = [ctx EXCEPT ![c] = [pc |-> "store", id |-> dnodes[Shared].seq, cb |-> cb]]
    /\ dnodes' = [dnodes EXCEPT ![Shared] = NextSeq(@)]
    /\ issued' = [issued EXCEPT ![Shared] = Append(@, dnodes[Shared].seq)]
    /\ UNCHANGED <<origin, hookSets>>
    /\ UNCHANGED <<raced, crashed, lostUpdate>>
    /\ UNCHANGED MainState
    /\ UNCHANGED CodecVars

\* registerCallback, second half: d.callbacks[next] = callback begins
ConcEnterStore(c) ==
    /\ ~crashed
    /\ ctx[c].pc = "store"
    /\ ctx' = [ctx EXCEPT ![c].pc = "inStore"]
    /\ raced' = EnterMap(c)
    /\ UNCHANGED <<dnodes, issued, origin, hookSets, crashed, lostUpdate>>
    /\ UNCHANGED MainState
    /\ UNCHANGED CodecVars

\* RemoveCallback(id): delete(d.callbacks, id) begins
ConcEnterDelete(c, id) ==
    /\ ~crashed
    /\ ctx[c].pc = "idle"
    /\ ctx' = [ctx EXCEPT ![c] = [pc |-> "inDelete", id |-> id, cb |-> "nil"]]
    /\ raced' = EnterMap(c)
    /\ UNCHANGED <<dnodes, issued, origin, hookSets, crashed, lostUpdate>>
    /\ UNCHANGED MainState
    /\ UNCHANGED CodecVars

\* the map access of goroutine c ends
ConcExitMap(c, outcome) ==
    /\ ~crashed
    /\ c \in InMap
    /\ outcome \in RaceOutcomes(c)
    /\ ctx' = [ctx EXCEPT ![c] = IdleCtx]
    /\ raced' = raced \ {c}
    /\ crashed' = (outcome = "crash")
    /\ lostUpdate' = (lostUpdate \/ outcome = "lost")
    /\ dnodes' = [dnodes EXCEPT ![Shared] =
                    IF outcome # "applied" THEN @
                    ELSE IF ctx[c].pc = "inStore"
                         THEN StoreCallback(@, ctx[c].id, ctx[c].cb)
                         ELSE RemoveCallback(@, ctx[c].id)]
    /\ UNCHANGED <<issued, origin, hookSets>>
    /\ UNCHANGED MainState
    /\ UNCHANGED CodecVars

----------------------------------------------------------------------------
(* Message codec: callbacks in the arguments travel as numeric ids.          *)
(* Message.Callbacks is a map[string]Path: the key is the callback id in     *)
(* decimal, the value is the path of the callback in the arguments.          *)

\* argument trees: scalars, invocables, sequences, mappings
Num(n)   == [t |-> "num", n |-> n]
Fn(f)    == [t |-> "func", f |-> f]
Arr(es)  == [t |-> "arr", elems |-> es]
Obj(fs)  == [t |-> "obj", fields |-> fs]
Str(x)   == [t |-> "str", s |-> x]
Stub(id) == [t |-> "stub", id |-> id]
Missing  == [t |-> "missing"]

\* what stands in the encoded arguments where a callback was
Placeholder == Str("[Function]")

\* a Path is a list of keys: sequence indices and field names
Idx(k) == [k |-> "idx", i |-> k, s |-> ""]
Key(x) == [k |-> "key", i |-> 0, s |-> x]

ArgLeaves == {Num(1), Fn("cbA")}
KeyOrder  == <<"a">>                \* the order in which mapping keys are walked
ObjKeys   == {KeyOrder[j] : j \in 1..Len(KeyOrder)}

SeqsUpTo(S, n) == UNION {[1..k -> S] : k \in 0..n}
ObjsOver(S) == UNION {[K -> S] : K \in SUBSET ObjKeys}

RECURSIVE Trees(_)
Trees(d) ==
    IF d = 0 THEN ArgLeaves
    ELSE LET sub == Trees(d - 1)
         IN  ArgLeaves \cup {Arr(es) : es \in SeqsUpTo(sub, MaxWidth)}
                       \cup {Obj(fs) : fs \in ObjsOver(sub)}

\* the argument lists a caller may pass
ArgLists == {Arr(es) : es \in SeqsUpTo(Trees(MaxDepth), MaxWidth)}

PrefixAll(e, ps) == [k \in 1..Len(ps) |-> <<e>> \o ps[k]]

\* the paths of the invocables of a tree, sequences in positional order,
\* mappings in key order
RECURSIVE FuncPaths(_), ArrPaths(_, _), ObjPaths(_, _)
FuncPaths(t) ==
    IF t.t = "func" THEN << <<>> >>
    ELSE IF t.t = "arr" THEN ArrPaths(t.elems, 1)
    ELSE IF t.t = "obj" THEN ObjPaths(t.fields, 1)
    ELSE <<>>
ArrPaths(es, k) ==
    IF k > Len(es) THEN <<>>
    ELSE PrefixAll(Idx(k - 1), FuncPaths(es[k])) \o ArrPaths(es, k + 1)
ObjPaths(fs, j) ==
    IF j > Len(KeyOrder) THEN <<>>
    ELSE (IF KeyOrder[j] \in DOMAIN fs
             THEN PrefixAll(Key(KeyOrder[j]), FuncPaths(fs[KeyOrder[j]]))
             ELSE <<>>) \o ObjPaths(fs, j + 1)

\* the encoded tree: every invocable replaced by the placeholder
RECURSIVE Scrub(_)
Scrub(t) ==
    IF t.t = "func" THEN Placeholder
    ELSE IF t.t = "arr" THEN Arr([k \in 1..Len(t.elems) |-> Scrub(t.elems[k])])
    ELSE IF t.t = "obj" THEN Obj([x \in DOMAIN t.fields |-> Scrub(t.fields[x])])
    ELSE t

\* the value at a path, Missing when the path addresses nothing
RECURSIVE At(_, _)
At(t, p) ==
    IF p = <<>> THEN t
    ELSE IF Head(p).k = "idx"
         THEN IF t.t = "arr" /\ Head(p).i + 1 \in 1..Len(t.elems)
                 THEN At(t.elems[Head(p).i + 1], Tail(p)) ELSE Missing
         ELSE IF t.t = "obj" /\ Head(p).s \in DOMAIN t.fields
                 THEN At(t.fields[Head(p).s], Tail(p)) ELSE Missing

\* the tree with the value at an existing path replaced by v
RECURSIVE Put(_, _, _)
Put(t, p, v) ==
    IF p = <<>> THEN v
    ELSE IF Head(p).k = "idx"
         THEN Arr([t.elems EXCEPT ![Head(p).i + 1] = Put(@, Tail(p), v)])
         ELSE Obj([t.fields EXCEPT ![Head(p).s] = Put(@, Tail(p), v)])

\* strconv formatting and parsing of an id, a string being its characters
DigitChars == <<"0", "1", "2", "3", "4", "5", "6", "7", "8", "9">>

RECURSIVE FormatUint(_)
FormatUint(n) ==
    IF n < 10 THEN <<DigitChars[n + 1]>>
    ELSE FormatUint(n \div 10) \o <<DigitChars[(n % 10) + 1]>>

DigitOf(c) == (CHOOSE k \in 1..10 : DigitChars[k] = c) - 1
IsDigit(c) == \E k \in 1..10 : DigitChars[k] = c

RECURSIVE ParseDigits(_, _)
ParseDigits(str, acc) ==
    IF str = <<>> THEN acc
    ELSE ParseDigits(Tail(str), acc * 10 + DigitOf(Head(str)))

ParseUint(str) ==
    IF str # <<>> /\ \A k \in 1..Len(str) : IsDigit(str[k])
       THEN [ok |-> TRUE, n |-> ParseDigits(str, 0)]
       ELSE [ok |-> FALSE, n |-> 0]

\* the JSON values of the callbacks object
JPath(p) == [t |-> "arr", elems |-> p]
JNum(n)  == [t |-> "num", n |-> n]

\* registers the invocables at paths[k..] in order, collecting (path, id)
RECURSIVE RegisterAll(_, _, _, _, _)
RegisterAll(d, tree, paths, k, pairs) ==
    IF k > Len(paths) THEN [d |-> d, pairs |-> pairs]
    ELSE RegisterAll(registerCallback(d, At(tree, paths[k]).f), tree, paths, k + 1,
                     Append(pairs, [path |-> paths[k], id |-> d.seq]))

\* the callbacks object of an outbound Message: id in decimal -> path
CallbackMap(pairs) ==
    [x \in {FormatUint(pairs[k].id) : k \in 1..Len(pairs)} |->
        JPath(pairs[CHOOSE k \in 1..Len(pairs) : FormatUint(pairs[k].id) = x].path)]

\* encoding of an outbound call
Encode(d, method, arguments) ==
    LET reg == RegisterAll(d, arguments, FuncPaths(arguments), 1, <<>>)
    IN  [d     |-> reg.d,
         pairs |-> reg.pairs,
         msg   |-> [method    |-> method,
                    arguments |-> Scrub(arguments),
                    callbacks |-> CallbackMap(reg.pairs)]]

\* Callbacks field declared with numbers as values (path string -> id)
UnmarshalCallbacksAsIds(js) == \A x \in DOMAIN js : js[x].t = "num"

\* Callbacks field declared with a dotted string as Path
UnmarshalCallbacksDotted(js) == \A x \in DOMAIN js : js[x].t = "str"

\* decoding the callbacks object into map[string]Path succeeds when every
\* value is a list
UnmarshalCallbacks(js) == \A x \in DOMAIN js : js[x].t = "arr"

\* replaces the value at the path of every entry of the callbacks map by a stub
RECURSIVE SubstAll(_, _, _)
SubstAll(tree, cbs, keys) ==
    IF keys = {} THEN tree
    ELSE LET x == CHOOSE y \in keys : TRUE
         IN  SubstAll(Put(tree, cbs[x].elems, Stub(ParseUint(x).n)), cbs, keys \ {x})

\* generic decode of the arguments of an inbound Message
Decode(msg) ==
    IF ~UnmarshalCallbacks(msg.callbacks) THEN NoDecode
    ELSE IF \E x \in DOMAIN msg.callbacks : ~ParseUint(x).ok THEN NoDecode
    ELSE IF \E x \in DOMAIN msg.callbacks :
               At(msg.arguments, msg.callbacks[x].elems) = Missing THEN NoDecode
    ELSE [ok |-> TRUE, tree |-> SubstAll(msg.arguments, msg.callbacks, DOMAIN msg.callbacks)]

\* messages a peer may send: callbacks written id -> path, and path -> id
PeerMsgs ==
    {[method |-> StrMethod("ping"), arguments |-> Arr(<<Placeholder>>),
      callbacks |-> [x \in {<<"7">>} |-> JPath(<<Idx(0)>>)]],
     [method |-> StrMethod("ping"), arguments |-> Arr(<<Placeholder>>),
      callbacks |-> [x \in {<<"0">>} |-> JNum(7)]]}

\* all positions of a decoded tree that hold a stub
RECURSIVE StubsOf(_), ArrStubs(_, _), ObjStubs(_, _)
StubsOf(t) ==
    IF t.t = "stub" THEN << <<>> >>
    ELSE IF t.t = "arr" THEN ArrStubs(t.elems, 1)
    ELSE IF t.t = "obj" THEN ObjStubs(t.fields, 1)
    ELSE <<>>
ArrStubs(es, k) ==
    IF k > Len(es) THEN <<>>
    ELSE PrefixAll(Idx(k - 1), StubsOf(es[k])) \o ArrStubs(es, k + 1)
ObjStubs(fs, j) ==
    IF j > Len(KeyOrder) THEN <<>>
    ELSE (IF KeyOrder[j] \in DOMAIN fs
             THEN PrefixAll(Key(KeyOrder[j]), StubsOf(fs[KeyOrder[j]]))
             ELSE <<>>) \o ObjStubs(fs, j + 1)

DnodeState == <<hmaps, dnodes, pc, cur, ret, recvLog, doneLog, recvErr,
               issued, origin, hookSets>>

\* the sender makes a call with some argument list
CodecSend ==
    /\ phase = "start"
    /\ \E a \in ArgLists :
          /\ args' = a
          /\ \E enc \in {Encode(snd, StrMethod("ping"), a)} :
                /\ snd' = enc.d
                /\ assigned' = enc.pairs
                /\ wire' = enc.msg
    /\ phase' = "sent"
    /\ last' = Call("send", 0, "", "nil", 0, FALSE)
    /\ UNCHANGED <<decoded, outMsg>>
    /\ UNCHANGED DnodeState
    /\ UNCHANGED ConcVars

\* a message written by the peer arrives (no local argument list)
CodecPeerSend(m) ==
    /\ phase = "start"
    /\ wire' = m
    /\ phase' = "sent"
    /\ args' = Missing
    /\ last' = Call("peer", 0, "", "nil", 0, FALSE)
    /\ UNCHANGED <<snd, assigned, decoded, outMsg>>
    /\ UNCHANGED DnodeState
    /\ UNCHANGED ConcVars

\* the receiver decodes the arguments, stubs in place of callbacks
CodecDecode ==
    /\ phase = "sent"
    /\ decoded' = Decode(wire)
    /\ phase' = "received"
    /\ UNCHANGED <<args, snd, assigned, wire, outMsg, last>>
    /\ UNCHANGED DnodeState
    /\ UNCHANGED ConcVars

\* the receiver invokes the stub at position k of the decoded arguments:
\* a call whose method is the stub's id, here without arguments
CodecInvokeStub(k) ==
    /\ phase = "received"
    /\ decoded.ok
    /\ k \in 1..Len(StubsOf(decoded.tree))
    /\ LET path == StubsOf(decoded.tree)[k]
           stub == At(decoded.tree, path)
       IN  /\ outMsg' = Encode(New("t2", 1), NumMethod(stub.id), Arr(<<>>)).msg
           /\ last' = Call("stub", 0, "", "nil", k, FALSE)
    /\ phase' = "invoked"
    /\ UNCHANGED <<args, snd, assigned, wire, decoded>>
    /\ UNCHANGED DnodeState
    /\ UNCHANGED ConcVars

----------------------------------------------------------------------------
(* Specifications *)

\* the registries over the life of the instances: construction, Copy,
\* handler registration, callback registration
Next ==
    \/ \E t \in FreeTransports : CallNew(t)
    \/ \E i \in Insts, t \in FreeTransports : CallCopy(i, t)
    \/ \E i \in Insts, n \in Names, h \in HandlerArgs : CallHandleFunc(i, n, h)
    \/ \E i \in Insts, cb \in CbFuncs : CallRegisterCallback(i, cb)

Spec == Init /\ [][Next]_vars

\* the callback registries of an instance and its copies: registration and
\* removal in any interleaving
NextCb ==
    \/ \E i \in Insts, t \in FreeTransports : CallCopy(i, t)
    \/ \E i \in Insts, cb \in CbFuncs : CallRegisterCallback(i, cb)
    \/ \E i \in Insts, id \in 0..MaxSeq : CallRemoveCallback(i, id)

SpecCb == Init /\ [][NextCb]_vars

\* one instance in its receive loop while the application registers
\* handlers and callbacks and removes callbacks
NextRun ==
    \/ \E i \in Insts : RunStart(i)
    \/ \E i \in Insts, r \in RecvResults : RunReceive(i, r)
    \/ \E i \in Insts, ok \in BOOLEAN : RunProcessMessage(i, ok)
    \/ \E i \in Insts, n \in Names, h \in HandlerArgs : CallHandleFunc(i, n, h)
    \/ \E i \in Insts, cb \in CbFuncs : CallRegisterCallback(i, cb)
    \/ \E i \in Insts, id \in 0..MaxSeq : CallRemoveCallback(i, id)

SpecRun == Init /\ [][NextRun]_vars

\* several goroutines registering and removing callbacks on one instance
NextConc ==
    \/ \E c \in Ctxs, cb \in CbFuncs : ConcAddSeq(c, cb)
    \/ \E c \in Ctxs : ConcEnterStore(c)
    \/ \E c \in Ctxs, id \in 0..MaxSeq : ConcEnterDelete(c, id)
    \/ \E c \in Ctxs, o \in {"applied", "lost", "crash"} : ConcExitMap(c, o)

SpecConc == Init /\ [][NextConc]_vars

\* one call across the wire: encode, decode, invoke a stub; the sender has
\* handed out some ids before
InitCodecSpec ==
    /\ InitDnode
    /\ InitCodec
    /\ \E k \in {0, 9} : snd = [New("t1", 1) EXCEPT !.seq = k]

NextCodec ==
    \/ CodecSend
    \/ \E m \in PeerMsgs : CodecPeerSend(m)
    \/ CodecDecode
    \/ \E k \in 1..Len(StubsOf(decoded.tree)) : CodecInvokeStub(k)

SpecCodec == InitCodecSpec /\ [][NextCodec]_vars

\* the receive loop under the scheduling the Go runtime gives a goroutine
\* that is not blocked: Receive returns, and processMessage returns
SpecRunFair ==
    /\ Init
    /\ [][NextRun]_vars
    /\ WF_vars(\E r \in RecvResults : RunReceive(1, r))
    /\ WF_vars(\E ok \in BOOLEAN : RunProcessMessage(1, ok))

\* an instance and its copies being configured: hooks assigned, callbacks
\* registered and removed
NextHooks ==
    \/ \E i \in Insts, t \in FreeTransports : CallCopy(i, t)
    \/ \E i \in Insts, f \in HookFields, v \in HookVals : SetHook(i, f, v)
    \/ \E i \in Insts, cb \in CbFuncs : CallRegisterCallback(i, cb)
    \/ \E i \in Insts, id \in 0..MaxSeq : CallRemoveCallback(i, id)

SpecHooks == Init /\ [][NextHooks]_vars

\* every kind of state of one instance changing: hooks, handlers, callbacks
NextFrame ==
    \/ \E i \in Insts, f \in HookFields, v \in HookVals : SetHook(i, f, v)
    \/ \E i \in Insts, n \in Names, h \in HandlerArgs : CallHandleFunc(i, n, h)
    \/ \E i \in Insts, cb \in CbFuncs : CallRegisterCallback(i, cb)
    \/ \E i \in Insts, id \in 0..MaxSeq : CallRemoveCallback(i, id)

SpecFrame == Init /\ [][NextFrame]_vars

\* a server: instance 1 is the prototype, every connection gets a copy that
\* runs the receive loop; peers call methods by name
MethodCalls == {r \in RecvResults : r.msg # NumMethod(0)}

NextServe ==
    \/ \E i \in Insts, t \in FreeTransports : CallCopy(i, t)
    \/ \E i \in Insts, n \in Names, h \in HandlerArgs : CallHandleFunc(i, n, h)
    \/ \E i \in Insts : CallRemoveCallback(i, 0)
    \/ \E i \in Insts \ {1} : RunStart(i)
    \/ \E i \in Insts, r \in MethodCalls : RunReceive(i, r)
    \/ \E i \in Insts, ok \in BOOLEAN : RunProcessMessage(i, ok)

SpecServe == Init /\ [][NextServe]_vars

\* a client: instance 1 runs the receive loop, the peer calls back by id;
\* callbacks are registered and removed on it and on its copies
CallbackCalls == {r \in RecvResults : r.msg # StrMethod("ping")}

NextCbRun ==
    \/ \E i \in Insts, t \in FreeTransports : CallCopy(i, t)
    \/ \E i \in Insts, cb \in CbFuncs : CallRegisterCallback(i, cb)
    \/ \E i \in Insts, id \in 0..MaxSeq : CallRemoveCallback(i, id)
    \/ \E i \in Insts \cap {1} : RunStart(i)
    \/ \E i \in Insts, r \in CallbackCalls : RunReceive(i, r)
    \/ \E i \in Insts, ok \in BOOLEAN : RunProcessMessage(i, ok)

SpecCbRun == Init /\ [][NextCbRun]_vars

----------------------------------------------------------------------------
(* Properties *)

Range(s) == {s[k] : k \in 1..Len(s)}

\* the messages whose processing has completed on instance i, in order
Processed(i) == [k \in 1..Len(doneLog[i]) |-> doneLog[i][k].m]

\* C1: Run dispatches the messages Receive returned in exactly that order and
\* one at a time: whenever Run is about to call Receive (or has returned),
\* every received message has been processed, in receipt order, and while a
\* message is being processed it is the only received message not yet processed.
C1_InOrderOneAtATime ==
    \A i \in Insts :
        IF pc[i] = "processing"
           THEN recvLog[i] = Append(Processed(i), cur[i])
           ELSE recvLog[i] = Processed(i)

C1_Witness ==
    /\ Len(doneLog[1]) = 2
    /\ doneLog[1][1].m = NumMethod(0)
    /\ doneLog[1][2].m = StrMethod("ping")
    /\ recvLog[1] = <<NumMethod(0), StrMethod("ping")>>

\* C2: Run stops only when Receive returns an error: it has returned exactly
\* when Receive has returned an error, its return value is that error, and
\* once it has returned nothing of the loop changes (no further Receive).
C2_StopsOnlyOnReceiveError ==
    [][\A i \in Insts :
          /\ (pc'[i] = "stopped") <=> (recvErr'[i] \in Errs)
          /\ ret'[i] = recvErr'[i]
          /\ pc[i] = "stopped" =>
                /\ pc'[i] = "stopped"
                /\ ret'[i] = ret[i]
                /\ recvErr'[i] = recvErr[i]
                /\ recvLog'[i] = recvLog[i]
                /\ doneLog'[i] = doneLog[i]]_vars

C2_Witness ==
    /\ pc[1] = "stopped"
    /\ ret[1] = "timeout"
    /\ Len(recvLog[1]) = 1
    /\ last.op = "HandleFunc"

\* C3: a dispatch-time failure never stops the receive loop: after a message
\* whose method name or callback id is not registered, or whose invocation
\* failed, the loop has received the next message, or is about to call
\* Receive, or has stopped because Receive itself returned an error.
C3_DispatchFailureKeepsLoop ==
    \A i \in Insts : \A k \in 1..Len(doneLog[i]) :
        doneLog[i][k].res \in {"miss", "fail"} =>
            \/ k < Len(recvLog[i])
            \/ pc[i] = "idle"
            \/ pc[i] = "stopped" /\ recvErr[i] \in Errs

C3_Witness ==
    /\ Len(doneLog[1]) = 2
    /\ doneLog[1][1].m = NumMethod(0)
    /\ doneLog[1][1].res = "miss"
    /\ doneLog[1][2].res = "handler"

\* C4: the ids registerCallback returns on one instance are strictly
\* increasing, so none is returned twice, whatever removals come in between.
C4_IdsStrictlyIncreasing ==
    \A i \in Insts : \A j, k \in 1..Len(issued[i]) :
        j < k => issued[i][j] < issued[i][k]

C4_Witness ==
    /\ last.op = "registerCallback"
    /\ last.id = 1
    /\ issued[last.inst] = <<0, 1>>
    /\ 0 \notin DOMAIN dnodes[last.inst].callbacks

\* C5: RemoveCallback(id) does not panic; when id is not in the callback
\* registry the instance is left exactly as it was, and when it is, exactly
\* that entry is deleted; so a second RemoveCallback(id) changes nothing.
C5_RemoveCallbackIdempotent ==
    [][last'.op = "RemoveCallback" =>
          LET i   == last'.inst
              id  == last'.id
              cbs == dnodes[i].callbacks
          IN  /\ ~last'.panicked
              /\ id \notin DOMAIN dnodes'[i].callbacks
              /\ id \notin DOMAIN cbs => dnodes'[i] = dnodes[i]
              /\ id \in DOMAIN cbs =>
                    dnodes'[i].callbacks = [k \in DOMAIN cbs \ {id} |-> cbs[k]]]_vars

C5_Witness ==
    /\ last.op = "RemoveCallback"
    /\ last.id \in Range(issued[last.inst])
    /\ last.id \notin DOMAIN dnodes[last.inst].callbacks
    /\ DOMAIN dnodes[last.inst].callbacks # {}

\* C6: HandleFunc(name, handler) panics exactly when name is empty, handler
\* is nil, handler is not a func, or name is already registered; a panicking
\* call leaves the registry as it was, any other call binds name to handler.
C6_HandleFuncPanics ==
    [][last'.op = "HandleFunc" =>
          LET h   == dnodes[last'.inst].handlers
              n   == last'.name
              f   == last'.handler
          IN  /\ last'.panicked <=>
                    \/ n = ""
                    \/ f = "nil"
                    \/ Kind(f) # "Func"
                    \/ n \in DOMAIN hmaps[h]
              /\ last'.panicked => hmaps'[h] = hmaps[h]
              /\ ~last'.panicked =>
                    /\ n \in DOMAIN hmaps'[h]
                    /\ hmaps'[h][n] = ValueOf(f)]_vars

C6_Witness ==
    /\ last.op = "HandleFunc"
    /\ last.panicked
    /\ last.name = "ping"
    /\ last.handler = "f2"
    /\ hmaps[dnodes[last.inst].handlers]["ping"] = ValueOf("f1")

\* C7: c = d.Copy(t) resolves every method name registered on d to the same
\* handler, and c's callback registry is empty, so no callback id of d is
\* resolvable on c.
C7_CopyKeepsHandlersDropsCallbacks ==
    [][last'.op = "Copy" =>
          LET c  == last'.inst
              d  == last'.id
              hd == hmaps[dnodes[d].handlers]
              hc == hmaps'[dnodes'[c].handlers]
          IN  /\ \A n \in DOMAIN hd : n \in DOMAIN hc /\ hc[n] = hd[n]
              /\ \A id \in DOMAIN dnodes[d].callbacks :
                    id \notin DOMAIN dnodes'[c].callbacks
              /\ DOMAIN dnodes'[c].callbacks = {}]_vars

C7_Witness ==
    /\ last.op = "Copy"
    /\ "ping" \in DOMAIN hmaps[dnodes[last.inst].handlers]
    /\ DOMAIN dnodes[last.id].callbacks = {0, 1}
    /\ DOMAIN dnodes[last.inst].callbacks = {}

\* C8: seq assignment and callbacks mutation are atomic for concurrent
\* callers: no two registrations obtain the same id, no registration or
\* removal is lost, the program is not stopped by the runtime, and no two
\* goroutines are inside an access to the callbacks map at once.
C8_AtomicRegistry ==
    /\ \A j, k \in 1..Len(issued[Shared]) :
          j # k => issued[Shared][j] # issued[Shared][k]
    /\ ~lostUpdate
    /\ ~crashed
    /\ Cardinality(InMap) <= 1

\* the decoded tree b has the shape of the argument tree a, stubs where the
\* invocables were
RECURSIVE SameShape(_, _)
SameShape(a, b) ==
    IF a.t = "func" THEN b.t = "stub"
    ELSE IF a.t = "arr"
         THEN /\ b.t = "arr"
              /\ Len(b.elems) = Len(a.elems)
              /\ \A k \in 1..Len(a.elems) : SameShape(a.elems[k], b.elems[k])
    ELSE IF a.t = "obj"
         THEN /\ b.t = "obj"
              /\ DOMAIN b.fields = DOMAIN a.fields
              /\ \A x \in DOMAIN a.fields : SameShape(a.fields[x], b.fields[x])
    ELSE b = a

\* the call on the wire was encoded from a local argument list
FromEncode == phase \in {"received", "invoked"} /\ args.t = "arr"

\* C9: encoding an argument tree and decoding the result with stub
\* substitution yields a tree of the same shape with a stub at exactly the
\* positions of the invocables; the callback map holds one entry per
\* invocable, recording its position as the path; the stub carries the id
\* registerCallback assigned to that invocable, and invoking the stub sends
\* a message whose method is that id.
C9_EncodeDecodeRoundTrip ==
    FromEncode =>
        /\ decoded.ok
        /\ SameShape(args, decoded.tree)
        /\ StubsOf(decoded.tree) = FuncPaths(args)
        /\ Len(assigned) = Len(FuncPaths(args))
        /\ Cardinality(DOMAIN wire.callbacks) = Len(assigned)
        /\ \A k \in 1..Len(assigned) :
              LET p  == assigned[k].path
                  id == assigned[k].id
              IN  /\ At(args, p).t = "func"
                  /\ snd.callbacks[id] = ValueOf(At(args, p).f)
                  /\ At(decoded.tree, p) = Stub(id)
                  /\ \E x \in DOMAIN wire.callbacks : wire.callbacks[x] = JPath(p)
        /\ phase = "invoked" =>
              \E k \in 1..Len(assigned) :
                  /\ assigned[k].path = StubsOf(decoded.tree)[last.id]
                  /\ outMsg.method = NumMethod(assigned[k].id)

C9_Witness ==
    /\ phase = "invoked"
    /\ args = Arr(<<Arr(<<Num(1), Fn("cbA")>>), Obj([x \in {"a"} |-> Fn("cbA")])>>)
    /\ assigned = <<[path |-> <<Idx(0), Idx(1)>>, id |-> 9],
                    [path |-> <<Idx(1), Key("a")>>, id |-> 10]>>
    /\ decoded.tree = Arr(<<Arr(<<Num(1), Stub(9)>>), Obj([x \in {"a"} |-> Stub(10)])>>)
    /\ outMsg.method = NumMethod(10)

C13_ProcessedExactlyOnce ==
    [][\A i \in Insts :
          /\ Len(recvLog'[i]) =
                Len(doneLog'[i]) + (IF pc'[i] = "processing" THEN 1 ELSE 0)
          /\ doneLog'[i] # doneLog[i] =>
                /\ pc[i] = "processing"
                /\ Len(doneLog'[i]) = Len(doneLog[i]) + 1
                /\ SubSeq(doneLog'[i], 1, Len(doneLog[i])) = doneLog[i]
                /\ doneLog'[i][Len(doneLog'[i])].m = cur[i]
                /\ pc'[i] = "idle"
          /\ recvLog'[i] # recvLog[i] =>
                /\ pc[i] = "idle"
                /\ pc'[i] = "processing"
                /\ recvLog'[i] = Append(recvLog[i], cur'[i])]_vars

C13_Witness ==
    /\ Len(doneLog[1]) = 2
    /\ doneLog[1][1].res = "fail"
    /\ doneLog[1][2].res = "callback"
    /\ Len(recvLog[1]) = 2
    /\ pc[1] = "idle"

\* C14: dispatch selects the registry by the form of the method: a string
\* method is looked up in the handler registry only (hit: that handler is
\* invoked, miss: reported), a numeric method in the callback registry only;
\* a number never invokes a handler and a name never invokes a callback.
C14_RegistryByMethodForm ==
    [][last'.op = "processMessage" =>
          LET i   == last'.inst
              m   == cur[i]
              o   == doneLog'[i][Len(doneLog'[i])]
              hm  == hmaps[dnodes[i].handlers]
              cbs == dnodes[i].callbacks
          IN  /\ o.m = m
              /\ m.kind \in {"str", "num"}
              /\ m.kind = "str" =>
                    /\ o.res # "callback"
                    /\ IF m.name \in DOMAIN hm
                          THEN o.res \in {"handler", "fail"} /\ o.target = hm[m.name]
                          ELSE o.res = "miss" /\ o.target = ZeroValue
              /\ m.kind = "num" =>
                    /\ o.res # "handler"
                    /\ IF m.id \in DOMAIN cbs
                          THEN o.res \in {"callback", "fail"} /\ o.target = cbs[m.id]
                          ELSE o.res = "miss" /\ o.target = ZeroValue]_vars

C14_Witness ==
    /\ last.op = "processMessage"
    /\ Len(doneLog[1]) = 2
    /\ doneLog[1][1] = [m |-> StrMethod("ping"), res |-> "handler", target |-> ValueOf("f2")]
    /\ doneLog[1][2] = [m |-> NumMethod(0), res |-> "miss", target |-> ZeroValue]
    /\ DOMAIN dnodes[1].callbacks = {1}

\* C19: RemoveCallback(id) changes nothing but the entry for id: the other
\* instances, the handler maps, and on the instance itself the sequence
\* counter, the handler registry, the transport, the four hooks and every
\* callback entry with another id stay as they were, whether or not id was
\* present; the receive loop's state is untouched.
C19_RemoveCallbackFrame ==
    [][last'.op = "RemoveCallback" =>
          LET i  == last'.inst
              id == last'.id
          IN  /\ hmaps' = hmaps
              /\ DOMAIN dnodes' = DOMAIN dnodes
              /\ \A j \in Insts \ {i} : dnodes'[j] = dnodes[j]
              /\ dnodes'[i].seq = dnodes[i].seq
              /\ dnodes'[i].handlers = dnodes[i].handlers
              /\ dnodes'[i].transport = dnodes[i].transport
              /\ \A f \in HookFields : dnodes'[i][f] = dnodes[i][f]
              /\ DOMAIN dnodes'[i].callbacks = DOMAIN dnodes[i].callbacks \ {id}
              /\ \A k \in DOMAIN dnodes'[i].callbacks :
                    dnodes'[i].callbacks[k] = dnodes[i].callbacks[k]
              /\ UNCHANGED RunState]_vars

C19_Witness ==
    /\ last = Call("RemoveCallback", 1, "", "nil", 0, FALSE)
    /\ dnodes[1].seq = 2
    /\ DOMAIN dnodes[1].callbacks = {1}
    /\ "ping" \in DOMAIN hmaps[dnodes[1].handlers]
    /\ dnodes[1].RunCallback = "custom"

\* C16: d.Copy(t) returns a new instance bound to t whose sequence counter
\* has the initial value of a fresh instance, so that the first id it assigns
\* is the first id a fresh instance assigns however many ids d has issued,
\* and whose four hooks equal those of d at the time of the copy.
C16_CopyTransportSeqHooks ==
    [][/\ last'.op = "Copy" =>
             LET c == last'.inst
                 d == last'.id
                 t == last'.name
             IN  /\ c = Len(dnodes) + 1
                 /\ Len(dnodes') = c
                 /\ d \in Insts
                 /\ dnodes'[c].transport = t
                 /\ dnodes'[c].seq = New(t, 1).seq
                 /\ DOMAIN registerCallback(dnodes'[c], "cbA").callbacks
                       = DOMAIN registerCallback(New(t, 1), "cbA").callbacks
                 /\ \A f \in HookFields : dnodes'[c][f] = dnodes[d][f]
       /\ (last'.op = "registerCallback" /\ issued[last'.inst] = <<>>) =>
             last'.id = New("t1", 1).seq]_vars

C16_Witness ==
    /\ last = Call("Copy", 2, "t2", "nil", 1, FALSE)
    /\ dnodes[1].seq = 2
    /\ dnodes[1].RunMethod = "custom"
    /\ dnodes[2].RunMethod = "custom"
    /\ dnodes[2].seq = 0
    /\ dnodes[2].transport = "t2"

\* C18: callback state is isolated per instance: Copy leaves every existing
\* instance (callback registry, sequence counter, transport, hooks) as it
\* was, and a registerCallback or RemoveCallback on one instance leaves every
\* other instance, its copies and its source included, unchanged.
C18_CallbackStateIsolated ==
    [][/\ last'.op = "Copy" =>
             \A j \in Insts : dnodes'[j] = dnodes[j]
       /\ last'.op \in {"registerCallback", "RemoveCallback"} =>
             /\ DOMAIN dnodes' = DOMAIN dnodes
             /\ \A j \in Insts \ {last'.inst} :
                   /\ dnodes'[j].callbacks = dnodes[j].callbacks
                   /\ dnodes'[j].seq = dnodes[j].seq]_vars

C18_Witness ==
    /\ last = Call("RemoveCallback", 2, "", "nil", 0, FALSE)
    /\ origin[2] = 1
    /\ DOMAIN dnodes[1].callbacks = {0, 1}
    /\ dnodes[1].WrapMethodArgs = "custom"
    /\ dnodes[2].callbacks = EmptyMap
    /\ dnodes[2].seq = 1

\* the instance a chain of copies started from
RECURSIVE Root(_)
Root(i) == IF origin[i] = 0 THEN i ELSE Root(origin[i])

\* C17: the handler registry of a copy is the registry of its source, not a
\* snapshot: at every moment a copy and its source resolve the same names to
\* the same handlers; a successful HandleFunc on an instance makes the name
\* resolvable on every instance related to it by Copy; and HandleFunc of a
\* name that is resolvable on a related instance panics and changes nothing.
C17_CopySharesRegistry ==
    [][/\ \A c \in DOMAIN dnodes' :
             origin'[c] # 0 =>
                hmaps'[dnodes'[c].handlers] = hmaps'[dnodes'[origin'[c]].handlers]
       /\ last'.op = "HandleFunc" =>
             LET i       == last'.inst
                 n       == last'.name
                 related == {j \in Insts : Root(j) = Root(i)}
             IN  /\ (\E j \in related : n \in DOMAIN hmaps[dnodes[j].handlers])
                       => last'.panicked
                 /\ IF last'.panicked
                       THEN hmaps' = hmaps
                       ELSE \A j \in related :
                               /\ n \in DOMAIN hmaps'[dnodes'[j].handlers]
                               /\ hmaps'[dnodes'[j].handlers][n] = ValueOf(last'.handler)]_vars

C17_Witness ==
    /\ last = Call("HandleFunc", 2, "ping", "f1", 0, FALSE)
    /\ origin = <<0, 1>>
    /\ hmaps[dnodes[1].handlers] = [x \in {"ping"} |-> ValueOf("f1")]
    /\ hmaps[dnodes[2].handlers] = [x \in {"ping"} |-> ValueOf("f1")]

\* C11: the handler registry is write-once per key: no step of HandleFunc,
\* Copy, Run or RemoveCallback removes a handler map, removes an entry from
\* one, rebinds a registered name to another handler, or moves an instance to
\* another handler map.
C11_HandlersWriteOnce ==
    [][/\ Len(hmaps') >= Len(hmaps)
       /\ \A m \in 1..Len(hmaps) : \A n \in DOMAIN hmaps[m] :
             /\ n \in DOMAIN hmaps'[m]
             /\ hmaps'[m][n] = hmaps[m][n]
       /\ \A i \in Insts : dnodes'[i].handlers = dnodes[i].handlers]_vars

C11_Witness ==
    /\ last = Call("HandleFunc", 1, "ping", "f2", 0, TRUE)
    /\ Len(dnodes) = 2
    /\ hmaps[dnodes[2].handlers] = [x \in {"ping"} |-> ValueOf("f1")]
    /\ Len(doneLog[2]) = 2
    /\ doneLog[2][1].res = "miss"
    /\ doneLog[2][2] = [m |-> StrMethod("ping"), res |-> "handler", target |-> ValueOf("f1")]

\* C12: the handler registry is read-only while any instance is dispatching:
\* no HandleFunc writes a handler map while an instance that uses that map,
\* the caller or one related to it by Copy, is processing a message.
C12_ReadOnlyWhileDispatching ==
    [][(last'.op = "HandleFunc" /\ ~last'.panicked) =>
          \A j \in Insts :
             dnodes[j].handlers = dnodes[last'.inst].handlers => pc[j] # "processing"]_vars

\* C15: a registered callback stays resolvable until RemoveCallback is called
\* with its id: an entry of a callback registry disappears or changes only in
\* a step that is RemoveCallback of that id on that instance, and a numeric
\* message whose id is registered is resolved to that callback, every time.
C15_CallbackStaysUntilRemoved ==
    [][/\ \A i \in Insts : \A k \in DOMAIN dnodes[i].callbacks :
             (\/ k \notin DOMAIN dnodes'[i].callbacks
              \/ dnodes'[i].callbacks[k] # dnodes[i].callbacks[k])
                => last' = Call("RemoveCallback", i, "", "nil", k, FALSE)
       /\ (/\ last'.op = "processMessage"
           /\ cur[last'.inst].kind = "num"
           /\ cur[last'.inst].id \in DOMAIN dnodes[last'.inst].callbacks) =>
             LET i == last'.inst
                 o == doneLog'[i][Len(doneLog'[i])]
             IN  /\ o.res \in {"callback", "fail"}
                 /\ o.target = dnodes[i].callbacks[cur[i].id]
                 /\ cur[i].id \in DOMAIN dnodes'[i].callbacks]_vars

C15_Witness ==
    /\ last.op = "processMessage"
    /\ Len(dnodes) = 2
    /\ origin[2] = 1
    /\ dnodes[1].seq = 2
    /\ DOMAIN dnodes[1].callbacks = {0}
    /\ Len(doneLog[1]) = 2
    /\ \A k \in {1, 2} : doneLog[1][k].m = NumMethod(0) /\ doneLog[1][k].res = "callback"

\* C20: Run eventually returns when the transport eventually fails: once Run
\* has been called, with every invocation terminating and the transport
\* returning an error after finitely many messages, Run reaches Stopped and
\* returns that error, every message delivered before it processed in order.
C20_RunReturnsOnTransportFailure ==
    (pc[1] # "init") ~>
        (/\ pc[1] = "stopped"
         /\ ret[1] \in Errs
         /\ ret[1] = recvErr[1]
         /\ Len(recvLog[1]) = Len(doneLog[1])
         /\ Processed(1) = recvLog[1])

C20_Witness ==
    /\ pc[1] = "stopped"
    /\ ret[1] = "EOF"
    /\ Len(recvLog[1]) = MaxMsgs
    /\ Processed(1) = recvLog[1]
    /\ doneLog[1][1].res = "fail"

====
